---- MODULE Spec2Model ----
(***************************************************************************)
(* Token issuer (GET /api/sas, GET /api/list), credential module, server   *)
(* startup with its permission probe, and browser upload client of the     *)
(* Azure blob upload sample.                                               *)
(*                                                                         *)
(* Times are milliseconds since the epoch (Date.valueOf()); the st / se    *)
(* fields of a signed URL are whole seconds, as the SDK formats them.      *)
(* Blob and file names are abstract ids 1, 2, ...; 0 is the empty string.  *)
(* Query strings that the code parses (permission, timerange) are          *)
(* sequences of one-character strings.                                     *)
(***************************************************************************)
EXTENDS Integers, Sequences, FiniteSets, TLC

VARIABLES
    accountName,    \* process.env.AZURE_STORAGE_ACCOUNT_NAME ("" when unset)
    _credential,    \* azure-storage.ts: the memoized credential
    store,          \* the blob store: container -> set of blob names
    resp,           \* the request being answered by the API, with its response
    selectedFile,   \* App.tsx: useState<File | null>
    sasTokenUrl,    \* App.tsx: useState<string>
    uploadStatus,   \* App.tsx: useState<string>
    list,           \* App.tsx: useState<string[]>
    sasFetches,     \* App.tsx: /api/sas fetches in flight, per requested file name
    uploads,        \* App.tsx: handleFileUpload promise chains in flight
    verify,         \* verify-permissions.ts: the run of verifyStoragePermissions
    server,         \* server.ts: the run of start()
    identity        \* azure-storage.ts: credentials constructed, clients built, token requests

serverVars == <<accountName, _credential, store, resp, verify, server, identity>>

clientVars == <<selectedFile, sasTokenUrl, uploadStatus, list, sasFetches, uploads>>

vars == <<accountName, _credential, store, resp,
          selectedFile, sasTokenUrl, uploadStatus, list, sasFetches, uploads, verify,
          server, identity>>

-----------------------------------------------------------------------------
(* Query parameters: a parameter is absent (undefined) or given a value.   *)

Undefined(d) == [given |-> FALSE, v |-> d]
Given(x) == [given |-> TRUE, v |-> x]

\* Destructuring default `{ p = d } = request.query`: applies to undefined only.
Default(p, d) == IF p.given THEN p.v ELSE d

EmptyName == 0

-----------------------------------------------------------------------------
(* parseInt(s, 10)                                                         *)

Digits == {"0", "1", "2", "3", "4", "5", "6", "7", "8", "9"}

DigitVal(c) ==
    CASE c = "0" -> 0 [] c = "1" -> 1 [] c = "2" -> 2 [] c = "3" -> 3
      [] c = "4" -> 4 [] c = "5" -> 5 [] c = "6" -> 6 [] c = "7" -> 7
      [] c = "8" -> 8 [] c = "9" -> 9

NaN == [nan |-> TRUE, val |-> 0]
Num(n) == [nan |-> FALSE, val |-> n]

RECURSIVE SkipSpace(_)
SkipSpace(s) ==
    IF s # <<>> /\ Head(s) = " " THEN SkipSpace(Tail(s)) ELSE s

RECURSIVE ParseDigits(_, _, _)
ParseDigits(s, acc, seen) ==
    IF s # <<>> /\ Head(s) \in Digits
    THEN ParseDigits(Tail(s), acc * 10 + DigitVal(Head(s)), TRUE)
    ELSE IF seen THEN Num(acc) ELSE NaN

parseInt(s) ==
    LET t == SkipSpace(s)
        neg == t # <<>> /\ Head(t) = "-"
        u == IF t # <<>> /\ Head(t) \in {"-", "+"} THEN Tail(t) ELSE t
        r == ParseDigits(u, 0, FALSE)
    IN  IF r.nan THEN NaN ELSE Num(IF neg THEN 0 - r.val ELSE r.val)

-----------------------------------------------------------------------------
(* Dates                                                                   *)

MsPerMinute == 60000

AddMinutes_seconds(startsOn, minutes) ==
    IF minutes.nan THEN NaN ELSE Num(startsOn + minutes.val * 1000)

\* new Date(startsOn.valueOf() + minutes * 60 * 1000); NaN gives an Invalid Date
AddMinutes(startsOn, minutes) ==
    IF minutes.nan THEN NaN ELSE Num(startsOn + minutes.val * MsPerMinute)

\* The SDK writes st / se as ISO 8601 without milliseconds.
TruncatedISO(ms) == ms \div 1000

-----------------------------------------------------------------------------
(* BlobSASPermissions.parse                                                *)

PermissionAlphabet == {"r", "a", "c", "w", "d", "x", "t", "m", "e", "i", "y", "p"}

InvalidChars(s) == {i \in 1..Len(s) : s[i] \notin PermissionAlphabet}

ParsePermissions_firstOnly(s) ==
    IF InvalidChars(s) # {}
    THEN [ok |-> FALSE, set |-> {}]
    ELSE [ok |-> TRUE, set |-> {s[i] : i \in 1..Len(s) \cap {1}}]

ParsePermissions(s) ==
    IF InvalidChars(s) # {}
    THEN [ok |-> FALSE, set |-> {}]
    ELSE [ok |-> TRUE, set |-> {s[i] : i \in 1..Len(s)}]

-----------------------------------------------------------------------------
(* URLs                                                                    *)

NoUrl == [kind |-> "none", container |-> "", blob |-> EmptyName,
          sp |-> {}, st |-> 0, se |-> 0, sc |-> "", sb |-> EmptyName]

\* `${containerClient.url}/${blob.name}`: a blob URL with no query string
BareUrl(container, blob) ==
    [kind |-> "bare", container |-> container, blob |-> blob,
     sp |-> {}, st |-> 0, se |-> 0, sc |-> "", sb |-> EmptyName]

SasUrl_containerScoped(container, blob, permissions, startsOn, expiresOn) ==
    [kind |-> "sas", container |-> container, blob |-> blob,
     sp |-> permissions,
     st |-> TruncatedISO(startsOn), se |-> TruncatedISO(expiresOn),
     sc |-> container, sb |-> EmptyName]

\* `${blobClient.url}?${sasToken}` with the token of generateBlobSASQueryParameters
SasUrl(container, blob, permissions, startsOn, expiresOn) ==
    [kind |-> "sas", container |-> container, blob |-> blob,
     sp |-> permissions,
     st |-> TruncatedISO(startsOn), se |-> TruncatedISO(expiresOn),
     sc |-> container, sb |-> blob]

-----------------------------------------------------------------------------
(* The store's answer to a delegation-key request, and the error text it   *)
(* raises in the SDK.                                                      *)

KeyOutcomes == {"ok", "DelegationDenied", "NetworkPolicyBlocked",
                "UpstreamFailure", "CredentialUnavailable"}

UpstreamMessage(outcome) ==
    CASE outcome = "DelegationDenied" ->
            "This request is not authorized to perform this operation using this permission."
      [] outcome = "NetworkPolicyBlocked" ->
            "This request is not authorized to perform this operation."
      [] outcome = "CredentialUnavailable" ->
            "ChainedTokenCredential authentication failed."
      [] outcome = "UpstreamFailure" ->
            "The server encountered an internal error."
      [] outcome = "ListFailure" ->
            "The specified container does not exist."
      [] OTHER -> ""

-----------------------------------------------------------------------------
(* Responses. A field the body does not carry is Absent.                   *)

Absent == "<absent>"

NoFx == [client |-> FALSE, keyReqs |-> 0, keyStart |-> 0, keyExpiry |-> 0,
         signs |-> 0, pages |-> 0]

NoQuery == [container |-> Undefined(""), file |-> Undefined(EmptyName),
            permission |-> Undefined(<<>>), timerange |-> Undefined(<<>>)]

NoResp == [route |-> "none", query |-> NoQuery, now |-> 0, keyOutcome |-> "ok",
           listed |-> {},
           status |-> 0, error |-> Absent, details |-> Absent,
           url |-> NoUrl, list |-> <<>>, fx |-> NoFx]

Reply(route, query, now, keyOutcome, status, error, details, url, fileList, fx) ==
    [route |-> route, query |-> query, now |-> now, keyOutcome |-> keyOutcome,
     listed |-> {},
     status |-> status, error |-> error, details |-> details,
     url |-> url, list |-> fileList, fx |-> fx]

-----------------------------------------------------------------------------
(* azure-storage.ts                                                        *)

\* `let _credential: ChainedTokenCredential | null = null`. Credential
\* instances are numbered in the order of their construction: 1, 2, ...
NoCredential == 0

\* `const credentials = [new ManagedIdentityCredential(clientId ? { clientId }
\* : undefined), new AzureCliCredential()]`: the strategies, in the order in
\* which they are handed to ChainedTokenCredential. clientId is
\* process.env.AZURE_CLIENT_ID ("" when unset).
credentials_cliFirst(clientId) ==
    << [kind |-> "AzureCliCredential", clientId |-> ""],
       [kind |-> "ManagedIdentityCredential", clientId |-> clientId] >>

credentials(clientId) ==
    << [kind |-> "ManagedIdentityCredential", clientId |-> clientId],
       [kind |-> "AzureCliCredential", clientId |-> ""] >>

\* getCredential(): `if (!_credential) { _credential = new ... } return
\* _credential`. `constructed` is the number of instances constructed so far.
getCredential_alwaysNew(cred, constructed) == constructed + 1

getCredential_newPerClient(cred, constructed) ==
    IF cred = NoCredential \/ constructed < 2 THEN constructed + 1 ELSE cred

getCredential(cred, constructed) ==
    IF cred = NoCredential THEN constructed + 1 ELSE cred

\* getBlobServiceClient(accountName): `const credential = getCredential()`,
\* then `new BlobServiceClient(url, credential)`. id is the bookkeeping of
\* the module: constructions counted, the chain of the instance, and the
\* credential of every client built.
AfterGetBlobServiceClient(id, cred) ==
    LET credential == getCredential(cred, id.constructed)
    IN  [id EXCEPT
            !.constructed = IF credential # cred THEN @ + 1 ELSE @,
            !.chain = IF credential # cred THEN credentials(id.clientId) ELSE @,
            !.clients = @ \cup {credential}]

\* ChainedTokenCredential.getToken: the strategies are tried in order; one
\* that is unavailable passes to the next, a token or any other error ends
\* the resolution. outcomes[i] is what strategy i would answer.
StrategyOutcomes == {"token", "unavailable", "error"}

RECURSIVE getToken(_, _, _)
getToken(chain, outcomes, i) ==
    IF i > Len(chain)
    THEN <<>>
    ELSE LET attempt == [kind |-> chain[i].kind, clientId |-> chain[i].clientId,
                         outcome |-> outcomes[i]]
         IN  IF outcomes[i] = "unavailable"
             THEN <<attempt>> \o getToken(chain, outcomes, i + 1)
             ELSE <<attempt>>

-----------------------------------------------------------------------------
(* GET /api/sas (routes/sas.ts)                                            *)

DEFAULT_CONTAINER == "upload"
DEFAULT_SAS_TOKEN_PERMISSION_rw == <<"r", "w">>
DEFAULT_SAS_TOKEN_PERMISSION == <<"w">>
DEFAULT_TIMERANGE == <<"1", "0">>

MissingFile_undefinedOnly(file) == ~file.given

\* `if (!file)`: undefined and the empty string are both falsy
MissingFile(file) == ~file.given \/ file.v = EmptyName

\* `if (!accountName)`
MissingAccount(account) == account = ""

\* The try block of getSasToken, in statement order. Each failing statement
\* throws into the one catch block, which answers 500 with the error text.
SasTry(query, account, now, keyOutcome) ==
    LET container == Default(query.container, DEFAULT_CONTAINER)
        file == query.file.v
        permission == Default(query.permission, DEFAULT_SAS_TOKEN_PERMISSION)
        timerange == Default(query.timerange, DEFAULT_TIMERANGE)
        startsOn == now
        timerangeMinutes == parseInt(timerange)
        expiresOn == AddMinutes(startsOn, timerangeMinutes)
        fxClient == [NoFx EXCEPT !.client = TRUE]
        fxKey == [fxClient EXCEPT !.keyReqs = 1, !.keyStart = startsOn,
                                  !.keyExpiry = expiresOn.val]
        perms == ParsePermissions(permission)
        Fail(details, fx) ==
            Reply("sas", query, now, keyOutcome, 500,
                  "Failed to generate SAS token", details, NoUrl, <<>>, fx)
    IN  IF expiresOn.nan
        THEN \* expiresOn.toISOString() in the log statement throws RangeError
             Fail("Invalid time value", fxClient)
        ELSE IF keyOutcome # "ok"
        THEN \* blobServiceClient.getUserDelegationKey rejects
             Fail(UpstreamMessage(keyOutcome), fxKey)
        ELSE IF ~perms.ok
        THEN \* BlobSASPermissions.parse throws RangeError
             Fail("Invalid permission", fxKey)
        ELSE Reply("sas", query, now, keyOutcome, 200, Absent, Absent,
                   SasUrl(container, file, perms.set, startsOn, expiresOn.val),
                   <<>>, [fxKey EXCEPT !.signs = 1])

getSasToken_retriesKey(query, account, now, keyOutcome) ==
    LET r == SasTry(query, account, now, keyOutcome)
    IN  IF MissingFile(query.file)
        THEN Reply("sas", query, now, keyOutcome, 400,
                   "Missing required parameter: file", Absent, NoUrl, <<>>, NoFx)
        ELSE IF MissingAccount(account)
        THEN Reply("sas", query, now, keyOutcome, 500,
                   "Storage configuration missing", Absent, NoUrl, <<>>, NoFx)
        ELSE IF r.status = 500 /\ r.fx.keyReqs = 1
        THEN [r EXCEPT !.fx.keyReqs = 2]
        ELSE r

getSasToken(query, account, now, keyOutcome) ==
    IF MissingFile(query.file)
    THEN Reply("sas", query, now, keyOutcome, 400,
               "Missing required parameter: file", Absent, NoUrl, <<>>, NoFx)
    ELSE IF MissingAccount(account)
    THEN Reply("sas", query, now, keyOutcome, 500,
               "Storage configuration missing", Absent, NoUrl, <<>>, NoFx)
    ELSE SasTry(query, account, now, keyOutcome)

-----------------------------------------------------------------------------
(* GET /api/list (routes/list.ts)                                          *)

LIST_SAS_TOKEN_EXPIRATION_MINUTES == 60
LIST_SAS_TOKEN_PERMISSION == <<"r">>
maxPageSize == 20

Min(a, b) == IF a <= b THEN a ELSE b

\* listBlobsFlat() enumerates the container's blobs in name order.
RECURSIVE listBlobsFlat(_)
listBlobsFlat(blobs) ==
    IF blobs = {} THEN <<>>
    ELSE LET m == CHOOSE x \in blobs : \A y \in blobs : x <= y
         IN  <<m>> \o listBlobsFlat(blobs \ {m})

\* .byPage({ maxPageSize }): the enumeration cut into pages of at most size
\* items; the store answers an empty enumeration with one empty page.
byPage(items, size) ==
    IF items = <<>> THEN << <<>> >>
    ELSE [p \in 1..((Len(items) + size - 1) \div size) |->
             SubSeq(items, (p - 1) * size + 1, Min(p * size, Len(items)))]

\* `for await (const response of ...byPage(...))` with the inner
\* `for (const blob of response.segment.blobItems)`: the blobs for which the
\* loops push a URL, in push order.
ForEachPage_firstPageOnly(pages, pushed) ==
    IF pages = <<>> THEN pushed ELSE pushed \o Head(pages)

RECURSIVE ForEachPage(_, _)
ForEachPage(pages, pushed) ==
    IF pages = <<>> THEN pushed
    ELSE ForEachPage(Tail(pages), pushed \o Head(pages))

ListReply(query, now, keyOutcome, status, error, details, fileList, fx, listed) ==
    [Reply("list", query, now, keyOutcome, status, error, details, NoUrl, fileList, fx)
        EXCEPT !.listed = listed]

ListQueries == {[NoQuery EXCEPT !.container = c] :
                  c \in {Undefined(""), Given("upload"), Given("other")}}

\* The try block of listFiles with per-blob read tokens.
ListTry(query, account, now, keyOutcome, listOutcome, blobsOf) ==
    LET container == Default(query.container, DEFAULT_CONTAINER)
        startsOn == now
        expiresOn == startsOn + LIST_SAS_TOKEN_EXPIRATION_MINUTES * MsPerMinute
        fxClient == [NoFx EXCEPT !.client = TRUE]
        fxKey == [fxClient EXCEPT !.keyReqs = 1, !.keyStart = startsOn,
                                  !.keyExpiry = expiresOn]
        perms == ParsePermissions(LIST_SAS_TOKEN_PERMISSION)
        items == listBlobsFlat(blobsOf[container])
        pages == byPage(items, maxPageSize)
        pushed == ForEachPage(pages, <<>>)
        fileList == [i \in 1..Len(pushed) |->
                        SasUrl(container, pushed[i], perms.set, startsOn, expiresOn)]
        Fail(details, fx) ==
            ListReply(query, now, keyOutcome, 500, "Failed to list files",
                      details, <<>>, fx, {})
    IN  IF keyOutcome # "ok"
        THEN Fail(UpstreamMessage(keyOutcome), fxKey)
        ELSE IF listOutcome # "ok"
        THEN Fail(UpstreamMessage(listOutcome), fxKey)
        ELSE ListReply(query, now, keyOutcome, 200, Absent, Absent, fileList,
                       [fxKey EXCEPT !.signs = Len(fileList), !.pages = Len(pages)],
                       blobsOf[container])

listFiles(query, account, now, keyOutcome, listOutcome, blobsOf) ==
    IF MissingAccount(account)
    THEN ListReply(query, now, keyOutcome, 500, "Storage configuration missing",
                   Absent, <<>>, NoFx, {})
    ELSE ListTry(query, account, now, keyOutcome, listOutcome, blobsOf)

\* The try block of the listFiles variant that pushes
\* `${containerClient.url}/${blob.name}` and requests no delegation key.
ListTryPlain(query, account, now, listOutcome, blobsOf) ==
    LET container == Default(query.container, DEFAULT_CONTAINER)
        fxClient == [NoFx EXCEPT !.client = TRUE]
        items == listBlobsFlat(blobsOf[container])
        pages == byPage(items, maxPageSize)
        pushed == ForEachPage(pages, <<>>)
        fileList == [i \in 1..Len(pushed) |-> BareUrl(container, pushed[i])]
    IN  IF listOutcome # "ok"
        THEN ListReply(query, now, "ok", 500, "Failed to list files",
                       UpstreamMessage(listOutcome), <<>>, fxClient, {})
        ELSE ListReply(query, now, "ok", 200, Absent, Absent, fileList,
                       [fxClient EXCEPT !.pages = Len(pages)], blobsOf[container])

listFilesPlain(query, account, now, listOutcome, blobsOf) ==
    IF MissingAccount(account)
    THEN ListReply(query, now, "ok", 500, "Storage configuration missing",
                   Absent, <<>>, NoFx, {})
    ELSE ListTryPlain(query, account, now, listOutcome, blobsOf)

-----------------------------------------------------------------------------
(* Inputs                                                                  *)

Containers == {"upload", "other"}

\* Names a caller asks /api/sas for, and names uploaded to the store.
SasNames == {1, 2}

ContainerInputs == {Undefined(""), Given("upload"), Given("other")}

FileInputs == {Undefined(EmptyName), Given(EmptyName)} \cup {Given(n) : n \in SasNames}

PermissionInputs ==
    {Undefined(<<>>), Given(<<>>), Given(<<"r">>), Given(<<"w">>),
     Given(<<"r", "w">>), Given(<<"d">>), Given(<<"z">>), Given(<<"w", "z">>)}

TimerangeInputs ==
    {Undefined(<<>>), Given(<<>>), Given(<<"a", "b">>), Given(<<"0">>),
     Given(<<"-", "5">>), Given(<<"1">>), Given(<<"3", "0">>),
     Given(<<"6", "0">>), Given(<<"6", "1">>), Given(<<"1", "2", "0">>),
     Given(<<"3", "0", "m">>)}

SasQueries ==
    [container : ContainerInputs, file : FileInputs,
     permission : PermissionInputs, timerange : TimerangeInputs]

\* Values of `new Date()` when a request is handled.
NowValues == {0, 1999}

ListOutcomes == {"ok", "ListFailure"}

-----------------------------------------------------------------------------
(* Browser client state (App.tsx)                                          *)

NoFile == [name |-> EmptyName, size |-> 0]

\* Files the user can pick: name and size in bytes.
Files == {[name |-> 1, size |-> 10], [name |-> 2, size |-> 0],
          [name |-> 2, size |-> 262145]}

FileNames == {f.name : f \in Files}

\* sasTokenUrl is '', a URL received from /api/sas, or the text
\* `Error getting sas token: ...` that the catch handler stores in it.
EmptyToken == [kind |-> "empty", url |-> NoUrl]
ErrorToken == [kind |-> "error", url |-> NoUrl]
UrlToken(u) == [kind |-> "url", url |-> u]

NoStatus == [text |-> "", message |-> ""]
SuccessStatus == [text |-> "Successfully finished upload", message |-> ""]
FailedStatus(m) == [text |-> "Failed to finish upload with error", message |-> m]

InitClient ==
    /\ selectedFile = NoFile
    /\ sasTokenUrl = EmptyToken
    /\ uploadStatus = NoStatus
    /\ list = <<>>
    /\ sasFetches = [n \in FileNames |-> 0]
    /\ uploads = {}

-----------------------------------------------------------------------------
(* verifyStoragePermissions state (lib/verify-permissions.ts)              *)

NoResult == [success |-> FALSE, message |-> Absent, details |-> Absent]

\* pc: the await the run is at; retries, lastError: the locals of the retry
\* loop; log: the store calls and waits made so far, with their outcomes.
VerifyIdle == [pc |-> "idle", retries |-> 0, lastError |-> "none",
               log |-> <<>>, result |-> NoResult]

-----------------------------------------------------------------------------
(* State of the process: start() and the credential module                 *)

\* process.env.NODE_ENV ("" when unset)
NodeEnvs == {"", "development", "production"}

\* The two start() functions: server.ts of the first API package listens
\* at once, the later one verifies the storage permissions first.
StartVariants == {"listen", "verify-then-listen"}

Booting(variant, nodeEnv) ==
    [variant |-> variant, NODE_ENV |-> nodeEnv, pc |-> "boot",
     verifications |-> 0, warnings |-> {}, exit |-> "none"]

\* A process that is past start() and serves requests.
Running == [Booting("listen", "") EXCEPT !.pc = "listening"]

MaxHandlers == 3

Handlers == 1..MaxHandlers

IdleHandler == [pc |-> "idle", credential |-> NoCredential, attempts |-> <<>>]

ClientIds == {"", "client-id"}

NoIdentity(clientId) ==
    [clientId |-> clientId, constructed |-> 0, chain |-> <<>>, clients |-> {},
     handlers |-> [h \in Handlers |-> IdleHandler]]

-----------------------------------------------------------------------------
(* The API server                                                          *)

TypeOK ==
    /\ accountName \in {"", "account"}
    /\ _credential \in Nat
    /\ identity.constructed \in Nat
    /\ identity.clientId \in ClientIds
    /\ server.pc \in {"boot", "verifying", "ready", "listening", "exited"}
    /\ store \in [Containers -> SUBSET Nat]

InitServer ==
    /\ accountName \in {"", "account"}
    /\ _credential = NoCredential
    /\ resp = NoResp
    /\ verify = VerifyIdle
    /\ server = Running
    /\ identity = NoIdentity("")

Init ==
    /\ InitServer
    /\ InitClient
    /\ store = [c \in Containers |-> {}]

\* A handler that reaches getBlobServiceClient calls getCredential.
GetBlobServiceClient(called) ==
    IF called
    THEN /\ _credential' = getCredential(_credential, identity.constructed)
         /\ identity' = AfterGetBlobServiceClient(identity, _credential)
    ELSE UNCHANGED <<_credential, identity>>

GetSasToken ==
    /\ resp.route = "none"
    /\ \E query \in SasQueries, now \in NowValues, keyOutcome \in KeyOutcomes :
          resp' = getSasToken(query, accountName, now, keyOutcome)
    /\ GetBlobServiceClient(resp'.fx.client)
    /\ UNCHANGED <<accountName, store, clientVars, verify, server>>

ListFiles ==
    /\ resp.route = "none"
    /\ \E query \in ListQueries, now \in NowValues, keyOutcome \in KeyOutcomes,
          listOutcome \in ListOutcomes :
          resp' = listFiles(query, accountName, now, keyOutcome, listOutcome, store)
    /\ GetBlobServiceClient(resp'.fx.client)
    /\ UNCHANGED <<accountName, store, clientVars, verify, server>>

ListFilesPlain ==
    /\ resp.route = "none"
    /\ \E query \in ListQueries, now \in NowValues, listOutcome \in ListOutcomes :
          resp' = listFilesPlain(query, accountName, now, listOutcome, store)
    /\ GetBlobServiceClient(resp'.fx.client)
    /\ UNCHANGED <<accountName, store, clientVars, verify, server>>

\* reply.send: the response leaves the process and the handler returns.
Complete ==
    /\ resp.route # "none"
    /\ resp' = NoResp
    /\ UNCHANGED <<accountName, _credential, identity, store, clientVars,
                   verify, server>>

\* A blob is written to the store (a PUT with a write-scoped URL).
StorePut ==
    /\ resp.route = "none"
    /\ \E c \in Containers, x \in SasNames :
          /\ x \notin store[c]
          /\ store' = [store EXCEPT ![c] = @ \cup {x}]
    /\ UNCHANGED <<accountName, _credential, identity, resp, clientVars,
                   verify, server>>

Next ==
    \/ GetSasToken
    \/ ListFiles
    \/ ListFilesPlain
    \/ Complete
    \/ StorePut

Spec == Init /\ [][Next]_vars

-----------------------------------------------------------------------------
(* The listing route over containers that span several pages               *)

MaxBlobs == 41

ListPutNames == {1, maxPageSize + 1, MaxBlobs + 1}

InitList ==
    /\ InitServer
    /\ InitClient
    /\ \E k \in 0..MaxBlobs :
          store = [c \in Containers |-> IF c = "upload" THEN 1..k ELSE {}]

StorePutList ==
    /\ resp.route = "none"
    /\ \E c \in Containers, x \in ListPutNames :
          /\ x \notin store[c]
          /\ store' = [store EXCEPT ![c] = @ \cup {x}]
    /\ UNCHANGED <<accountName, _credential, identity, resp, clientVars,
                   verify, server>>

NextList ==
    \/ ListFiles
    \/ ListFilesPlain
    \/ Complete
    \/ StorePutList

SpecList == InitList /\ [][NextList]_vars

-----------------------------------------------------------------------------
(* Properties of the API routes                                            *)

Sas200 == resp.route = "sas" /\ resp.status = 200
List200 == resp.route = "list" /\ resp.status = 200

\* C1: a /api/sas request whose file parameter is absent or empty is
\* answered 400 {"error":"Missing required parameter: file"}, whatever the
\* other parameters and the configuration, with no blob service client
\* created, no delegation-key request and no signing in that request.
C1_MissingFileIs400 ==
    (resp.route = "sas" /\ (~resp.query.file.given \/ resp.query.file.v = EmptyName))
    => /\ resp.status = 400
       /\ resp.error = "Missing required parameter: file"
       /\ resp.details = Absent
       /\ resp.url = NoUrl
       /\ resp.fx = NoFx

C1_Witness ==
    /\ resp.route = "sas"
    /\ resp.query.file = Given(EmptyName)
    /\ resp.query.permission = Given(<<"z">>)
    /\ accountName = ""
    /\ resp.status = 400

\* C2: every URL returned with status 200 by /api/sas carries a start and an
\* expiry time and the expiry is strictly later than the start.
C2_ExpiryAfterStart ==
    Sas200 => (resp.url.kind = "sas" /\ resp.url.se > resp.url.st)

\* C3: the validity span of every token issued by /api/sas is at least 1 and
\* at most 60 minutes, whatever timerange the caller supplies.
C3_SpanClamped ==
    Sas200 => /\ resp.url.se - resp.url.st <= 60 * 60
              /\ resp.url.se - resp.url.st >= 60

IssuedUrls ==
    (IF Sas200 THEN {resp.url} ELSE {})
      \cup (IF List200 THEN {resp.list[i] : i \in 1..Len(resp.list)} ELSE {})

\* C4 as stated: no signed URL ever issued carries both read and write;
\* /api/sas URLs are write-only and /api/list URLs are read-only.
C4_NeverReadAndWrite ==
    /\ \A u \in IssuedUrls : u.kind = "sas" => ~({"r", "w"} \subseteq u.sp)
    /\ Sas200 => resp.url.sp = {"w"}
    /\ List200 => \A i \in 1..Len(resp.list) :
                     resp.list[i].kind = "sas" => resp.list[i].sp = {"r"}

RequestedCodes == {resp.query.permission.v[i] : i \in 1..Len(resp.query.permission.v)}

\* C4 as amended: signed URLs issued by /api/list are read-only; a URL issued
\* by /api/sas is write-only when permission is omitted or is w, and carries
\* both read and write exactly when the caller's permission names both.
C4_PermissionSeparationByDefault ==
    /\ List200 => \A i \in 1..Len(resp.list) :
                     resp.list[i].kind = "sas" => resp.list[i].sp = {"r"}
    /\ (Sas200 /\ (~resp.query.permission.given \/ resp.query.permission.v = <<"w">>))
          => resp.url.sp = {"w"}
    /\ (Sas200 /\ resp.query.permission.given)
          => (({"r", "w"} \subseteq resp.url.sp) <=> ({"r", "w"} \subseteq RequestedCodes))

C4_Witness ==
    /\ Sas200
    /\ ~resp.query.permission.given
    /\ resp.url.sp = {"w"}
    /\ store["upload"] # {}

\* C5: every entry of a 200 response of /api/list is a signed URL minted in
\* that request, read-only, valid for 60 minutes from the request's time,
\* one entry per enumerated blob; none is a bare blob URL.
C5_ListEntriesSigned ==
    List200 =>
       /\ Len(resp.list) = Cardinality(resp.listed)
       /\ \A i \in 1..Len(resp.list) :
             /\ resp.list[i].kind = "sas"
             /\ resp.list[i].sp = {"r"}
             /\ resp.list[i].st = TruncatedISO(resp.now)
             /\ resp.list[i].se - resp.list[i].st = 60 * 60

ListedContainer == Default(resp.query.container, "upload")

\* C8: a 200 response of /api/list?container=C holds exactly one entry for
\* every blob present in C, however many pages of 20 the enumeration spans:
\* no truncation at a page boundary, no duplicate, no foreign entry.
C8_ListingComplete ==
    List200 =>
       /\ Len(resp.list) = Cardinality(store[ListedContainer])
       /\ {resp.list[i].blob : i \in 1..Len(resp.list)} = store[ListedContainer]
       /\ \A i \in 1..Len(resp.list) : resp.list[i].container = ListedContainer

C8_Witness ==
    /\ List200
    /\ ListedContainer = "upload"
    /\ resp.fx.pages >= 3
    /\ MaxBlobs + 1 \in store["upload"]
    /\ \E i \in 1..Len(resp.list) : resp.list[i].blob = MaxBlobs + 1

InvalidTimerange == resp.query.timerange.given /\ parseInt(resp.query.timerange.v).nan

InvalidPermission ==
    resp.query.permission.given /\
    \E i \in 1..Len(resp.query.permission.v) :
        resp.query.permission.v[i] \notin PermissionAlphabet

\* C10: a /api/sas request that has file but a timerange that is not a number
\* or a permission code outside the alphabet is answered 4xx, never 5xx, and
\* rejected before any delegation-key request is sent.
C10_InvalidParameterIs4xx ==
    (/\ resp.route = "sas"
     /\ resp.query.file.given /\ resp.query.file.v # EmptyName
     /\ accountName # ""
     /\ (InvalidTimerange \/ InvalidPermission))
    => /\ resp.status \in 400..499
       /\ resp.fx.keyReqs = 0

-----------------------------------------------------------------------------
(* The browser client (App.tsx)                                            *)

MaxPending == 1
MaxUploads == 1

\* `new Date()` in the API when it serves the client's requests, and the
\* store's answers to its delegation-key requests.
ClientNow == {1999}
ClientKeyOutcomes == {"ok", "DelegationDenied"}

\* The query handleFileSasToken sends: file = encodeURIComponent(name) as the
\* API decodes it, permission 'w', container `upload`, timerange 10.
ClientSasQuery(name) ==
    [container |-> Given("upload"), file |-> Given(name),
     permission |-> Given(<<"w">>), timerange |-> Given(<<"1", "0">>)]

ClientListQuery == [NoQuery EXCEPT !.container = Given("upload")]

handleFileSelection ==
    /\ \E f \in Files : selectedFile' = f
    /\ sasTokenUrl' = EmptyToken
    /\ uploadStatus' = NoStatus
    /\ UNCHANGED <<serverVars, list, sasFetches, uploads>>

\* `if (!selectedFile) return;` then fetch(url): the request is in flight.
handleFileSasToken ==
    /\ selectedFile # NoFile
    /\ sasFetches[selectedFile.name] < MaxPending
    /\ sasFetches' = [sasFetches EXCEPT ![selectedFile.name] = @ + 1]
    /\ UNCHANGED <<serverVars, selectedFile, sasTokenUrl, uploadStatus, list, uploads>>

\* The fetch rejects (network error): the catch handler, Error branch.
SasFetchRejected ==
    /\ \E n \in FileNames :
          /\ sasFetches[n] > 0
          /\ sasFetches' = [sasFetches EXCEPT ![n] = @ - 1]
    /\ sasTokenUrl' = ErrorToken
    /\ UNCHANGED <<serverVars, selectedFile, uploadStatus, list, uploads>>

\* The API's response arrives: `if (!response.ok) throw`, else
\* setSasTokenUrl(data.url).
SasTokenOf(r) == IF r.status \in 200..299 THEN UrlToken(r.url) ELSE ErrorToken

SasResponseArrives ==
    /\ \E n \in FileNames, now \in ClientNow, keyOutcome \in ClientKeyOutcomes :
          /\ sasFetches[n] > 0
          /\ sasFetches' = [sasFetches EXCEPT ![n] = @ - 1]
          /\ LET r == getSasToken(ClientSasQuery(n), accountName, now, keyOutcome)
             IN  /\ sasTokenUrl' = SasTokenOf(r)
                 /\ GetBlobServiceClient(r.fx.client)
    /\ UNCHANGED <<accountName, store, resp, selectedFile, uploadStatus,
                   list, uploads, verify, server>>

\* `if (sasTokenUrl === '') return;`
UploadGuard(token) == token.kind # "empty"

\* handleFileUpload up to convertFileToArrayBuffer(selectedFile): the chain
\* closes over the sasTokenUrl and selectedFile of the render it was made in.
handleFileUpload ==
    /\ UploadGuard(sasTokenUrl)
    /\ Cardinality(uploads) < MaxUploads
    /\ uploads' = uploads \cup
          {[pc |-> "convert", token |-> sasTokenUrl, file |-> selectedFile]}
    /\ UNCHANGED <<serverVars, selectedFile, sasTokenUrl, uploadStatus, list, sasFetches>>

\* The catch handler of the chain.
Catch(ch, message) ==
    /\ uploadStatus' = FailedStatus(message)
    /\ uploads' = uploads \ {ch}

\* convertFileToArrayBuffer rejects: reader.onerror.
ConvertRejected ==
    /\ \E ch \in uploads :
          /\ ch.pc = "convert"
          /\ Catch(ch, "Error reading file.")
    /\ UNCHANGED <<serverVars, selectedFile, sasTokenUrl, list, sasFetches>>

ConvertResolved_sendsEmpty ==
    /\ \E ch \in uploads :
          /\ ch.pc = "convert"
          /\ \/ /\ ch.token.kind = "error"
                /\ Catch(ch, "Invalid URL")
             \/ /\ uploads' = (uploads \ {ch}) \cup {[ch EXCEPT !.pc = "put"]}
                /\ UNCHANGED uploadStatus
    /\ UNCHANGED <<serverVars, selectedFile, sasTokenUrl, list, sasFetches>>

\* convertFileToArrayBuffer resolves with the file's bytes; the first `then`.
\* new BlockBlobClient(text that is no URL) may throw or send a request
\* that fails.
ConvertResolved ==
    /\ \E ch \in uploads :
          /\ ch.pc = "convert"
          /\ \/ /\ ch.file.size < 1
                /\ Catch(ch, "Failed to convert file to ArrayBuffer")
             \/ /\ ch.file.size >= 1
                /\ ch.token.kind = "error"
                /\ Catch(ch, "Invalid URL")
             \/ /\ ch.file.size >= 1
                /\ uploads' = (uploads \ {ch}) \cup {[ch EXCEPT !.pc = "put"]}
                /\ UNCHANGED uploadStatus
    /\ UNCHANGED <<serverVars, selectedFile, sasTokenUrl, list, sasFetches>>

\* The store takes a PUT for a URL signed with write (or create) permission.
StoreAccepts(token) ==
    /\ token.kind = "url"
    /\ token.url.kind = "sas"
    /\ token.url.sp \cap {"w", "c"} # {}

UploadRejected_clearsToken ==
    /\ \E ch \in uploads :
          /\ ch.pc = "put"
          /\ Catch(ch, "Upload failed")
    /\ sasTokenUrl' = EmptyToken
    /\ UNCHANGED <<serverVars, selectedFile, list, sasFetches>>

UploadRejected_refreshes ==
    /\ \E ch \in uploads :
          /\ ch.pc = "put"
          /\ uploads' = (uploads \ {ch}) \cup {[ch EXCEPT !.pc = "list"]}
          /\ uploadStatus' = FailedStatus("Upload failed")
    /\ UNCHANGED <<serverVars, selectedFile, sasTokenUrl, list, sasFetches>>

\* uploadData rejects: the store refuses the request or the network fails.
UploadRejected ==
    /\ \E ch \in uploads :
          /\ ch.pc = "put"
          /\ Catch(ch, "Upload failed")
    /\ UNCHANGED <<serverVars, selectedFile, sasTokenUrl, list, sasFetches>>

\* uploadData resolves: the second `then` sets the status and fetches the list.
UploadResolved ==
    /\ \E ch \in uploads :
          /\ ch.pc = "put"
          /\ StoreAccepts(ch.token)
          /\ store' = [store EXCEPT ![ch.token.url.sc] = @ \cup {ch.token.url.sb}]
          /\ uploads' = (uploads \ {ch}) \cup {[ch EXCEPT !.pc = "list"]}
    /\ uploadStatus' = SuccessStatus
    /\ UNCHANGED <<accountName, _credential, identity, resp, selectedFile,
                   sasTokenUrl, list, sasFetches, verify, server>>

ListFetchRejected_clearsList ==
    /\ \E ch \in uploads :
          /\ ch.pc = "list"
          /\ Catch(ch, "Failed to fetch")
    /\ list' = <<>>
    /\ UNCHANGED <<serverVars, selectedFile, sasTokenUrl, sasFetches>>

\* fetch(listUrl) rejects.
ListFetchRejected ==
    /\ \E ch \in uploads :
          /\ ch.pc = "list"
          /\ Catch(ch, "Failed to fetch")
    /\ UNCHANGED <<serverVars, selectedFile, sasTokenUrl, list, sasFetches>>

\* The listing response arrives: `if (!response.ok) throw`, else
\* setList(data.list).
ListResponseArrives ==
    /\ \E ch \in uploads, now \in ClientNow, keyOutcome \in ClientKeyOutcomes,
          listOutcome \in ListOutcomes :
          /\ ch.pc = "list"
          /\ LET r == listFiles(ClientListQuery, accountName, now, keyOutcome,
                                listOutcome, store)
             IN  /\ GetBlobServiceClient(r.fx.client)
                 /\ IF r.status \in 200..299
                    THEN /\ list' = r.list
                         /\ uploads' = uploads \ {ch}
                         /\ UNCHANGED uploadStatus
                    ELSE /\ Catch(ch, "Error: 500")
                         /\ UNCHANGED list
    /\ UNCHANGED <<accountName, store, resp, selectedFile, sasTokenUrl,
                   sasFetches, verify, server>>

InitApp ==
    /\ InitServer
    /\ InitClient
    /\ store = [c \in Containers |-> {}]

NextClient ==
    \/ handleFileSelection
    \/ handleFileSasToken
    \/ SasFetchRejected
    \/ SasResponseArrives
    \/ handleFileUpload
    \/ ConvertRejected
    \/ ConvertResolved
    \/ UploadRejected
    \/ UploadResolved
    \/ ListFetchRejected
    \/ ListResponseArrives

SpecClient == InitApp /\ [][NextClient]_vars

-----------------------------------------------------------------------------
(* Properties of the browser client                                        *)

\* C6: whenever an upload starts, the signed URL it uses was issued for the
\* file that is currently selected, under every interleaving of file
\* selection, token request, token response and upload click.
C6_TokenMatchesSelectedFile ==
    \A ch \in uploads :
        ch.token.kind = "url" => ch.token.url.blob = ch.file.name

\* C7: the client starts an upload only while it holds a signed URL returned
\* by a successful /api/sas response; after a failed token request the
\* Upload action is not available and handleFileUpload does not proceed.
C7_UploadOnlyWithSignedUrl ==
    \A ch \in uploads : ch.token.kind = "url" /\ ch.token.url.kind = "sas"

-----------------------------------------------------------------------------
(* verifyStoragePermissions (lib/verify-permissions.ts)                    *)

RETRIES == 3

\* Outcomes of getProperties and of listContainers.
ProbeOutcomes == {"ok", "NetworkPolicyBlocked", "UpstreamFailure",
                  "CredentialUnavailable"}

Returned(success, message, details) ==
    [success |-> success, message |-> message, details |-> details]

\* getBlobServiceClient(accountName) throws on an empty account name: the
\* outer catch returns. Otherwise the retry loop starts with retries = 3.
VerifyStart ==
    /\ verify.pc = "idle"
    /\ IF accountName = ""
       THEN /\ verify' = [verify EXCEPT
                  !.pc = "done",
                  !.result = Returned(FALSE, "Permission verification failed",
                      "AZURE_STORAGE_ACCOUNT_NAME environment variable is required")]
            /\ GetBlobServiceClient(FALSE)
       ELSE /\ verify' = [verify EXCEPT !.pc = "access", !.retries = RETRIES]
            /\ GetBlobServiceClient(TRUE)
    /\ UNCHANGED <<accountName, store, resp, clientVars, server>>

\* After the loop: `if (retries === 0) return {...}`
AccessFailed(retries, lastError) ==
    Returned(FALSE,
        "Cannot access storage account. RBAC roles may need time to propagate (5-10 minutes).",
        UpstreamMessage(lastError))

AccessProbe_noCountdown ==
    /\ verify.pc = "access"
    /\ verify.retries > 0
    /\ \E outcome \in ProbeOutcomes :
          LET logged == Append(verify.log, <<"getProperties", outcome>>)
          IN  IF outcome = "ok"
              THEN verify' = [verify EXCEPT !.pc = "key", !.log = logged]
              ELSE verify' = [verify EXCEPT !.pc = "wait", !.log = logged,
                                 !.lastError = outcome]
    /\ UNCHANGED <<accountName, _credential, identity, store, resp,
                   clientVars, server>>

\* One pass of `while (retries > 0)`: await blobServiceClient.getProperties()
AccessProbe ==
    /\ verify.pc = "access"
    /\ verify.retries > 0
    /\ \E outcome \in ProbeOutcomes :
          LET logged == Append(verify.log, <<"getProperties", outcome>>)
          IN  IF outcome = "ok"
              THEN verify' = [verify EXCEPT !.pc = "key", !.log = logged]
              ELSE IF verify.retries - 1 > 0
              THEN verify' = [verify EXCEPT !.pc = "wait", !.log = logged,
                                 !.lastError = outcome, !.retries = @ - 1]
              ELSE verify' = [verify EXCEPT !.pc = "done", !.log = logged,
                                 !.lastError = outcome, !.retries = @ - 1,
                                 !.result = AccessFailed(0, outcome)]
    /\ UNCHANGED <<accountName, _credential, identity, store, resp,
                   clientVars, server>>

\* `await new Promise(resolve => setTimeout(resolve, 2000))`
RetryWait ==
    /\ verify.pc = "wait"
    /\ verify' = [verify EXCEPT !.pc = "access",
                                !.log = Append(@, <<"wait", "2000">>)]
    /\ UNCHANGED <<accountName, _credential, identity, store, resp,
                   clientVars, server>>

DelegationProbeFailed_blamesContributor(outcome) ==
    Returned(FALSE, "Missing required role: Storage Blob Data Contributor",
             UpstreamMessage(outcome))

\* The catch block of the delegation-key probe
DelegationProbeFailed(outcome) ==
    Returned(FALSE, "Missing required role: Storage Blob Delegator",
             UpstreamMessage(outcome))

\* Test 2: await blobServiceClient.getUserDelegationKey(startsOn, expiresOn)
DelegationProbe ==
    /\ verify.pc = "key"
    /\ \E outcome \in KeyOutcomes :
          LET logged == Append(verify.log, <<"getUserDelegationKey", outcome>>)
          IN  IF outcome = "ok"
              THEN verify' = [verify EXCEPT !.pc = "list", !.log = logged]
              ELSE verify' = [verify EXCEPT !.pc = "done", !.log = logged,
                                 !.result = DelegationProbeFailed(outcome)]
    /\ UNCHANGED <<accountName, _credential, identity, store, resp,
                   clientVars, server>>

\* Test 3: await blobServiceClient.listContainers({ prefix: 'upload' }).next()
ContainerProbe ==
    /\ verify.pc = "list"
    /\ \E outcome \in ProbeOutcomes :
          LET logged == Append(verify.log, <<"listContainers", outcome>>)
          IN  IF outcome = "ok"
              THEN verify' = [verify EXCEPT !.pc = "done", !.log = logged,
                     !.result = Returned(TRUE,
                         "All required storage permissions are configured correctly",
                         Absent)]
              ELSE verify' = [verify EXCEPT !.pc = "done", !.log = logged,
                     !.result = Returned(FALSE,
                         "Missing required role: Storage Blob Data Contributor",
                         UpstreamMessage(outcome))]
    /\ UNCHANGED <<accountName, _credential, identity, store, resp,
                   clientVars, server>>

NextVerify ==
    \/ VerifyStart
    \/ AccessProbe
    \/ RetryWait
    \/ DelegationProbe
    \/ ContainerProbe

SpecVerify == Init /\ [][NextVerify]_vars

-----------------------------------------------------------------------------
(* Properties of the error reports                                         *)

LastCall == verify.log[Len(verify.log)]

SasKeyFailure ==
    resp.route = "sas" /\ resp.status = 500 /\ resp.fx.keyReqs = 1 /\ resp.keyOutcome # "ok"

\* C9: a delegation-key request denied for lack of the delegation capability,
\* one rejected by a network access rule and a generic upstream failure never
\* produce the same error message: the message of the /api/sas 500 response
\* and of the verifyStoragePermissions result tells the class that occurred.
C9_FailureClassesDistinguishable ==
    /\ (/\ verify.pc = "done"
        /\ verify.result.message = "Missing required role: Storage Blob Delegator")
       => LastCall = <<"getUserDelegationKey", "DelegationDenied">>
    /\ (SasKeyFailure /\ resp.details = UpstreamMessage("DelegationDenied"))
       => resp.keyOutcome = "DelegationDenied"
    /\ (SasKeyFailure /\ resp.details = UpstreamMessage("NetworkPolicyBlocked"))
       => resp.keyOutcome = "NetworkPolicyBlocked"

-----------------------------------------------------------------------------
(* Properties of the error bodies                                          *)

\* C11: every 500 response of /api/sas and of /api/list carries a generic
\* error message and a details field with the upstream error text, whatever
\* the cause (no account configured, credential, delegation key, signing or
\* enumeration failure), and no failed request is answered 200.
C11_Every500HasDetails ==
    /\ (resp.route \in {"sas", "list"} /\ resp.status = 500)
          => (resp.error # Absent /\ resp.details # Absent)
    /\ (resp.route \in {"sas", "list"} /\ resp.status = 200)
          => (accountName # "" /\ (resp.fx.keyReqs = 1 => resp.keyOutcome = "ok"))

-----------------------------------------------------------------------------
(* Properties of the issued URL                                            *)

\* C18: the permission set signed into a URL returned with status 200 by
\* /api/sas is the one the permission parameter denotes, for r, w, rw and d,
\* and is write-only when the parameter is omitted; the container is
\* `upload` when the container parameter is omitted.
C18_PermissionsAsRequested ==
    Sas200 =>
       /\ ~resp.query.permission.given => resp.url.sp = {"w"}
       /\ resp.query.permission = Given(<<"r">>) => resp.url.sp = {"r"}
       /\ resp.query.permission = Given(<<"w">>) => resp.url.sp = {"w"}
       /\ resp.query.permission = Given(<<"r", "w">>) => resp.url.sp = {"r", "w"}
       /\ resp.query.permission = Given(<<"d">>) => resp.url.sp = {"d"}
       /\ ~resp.query.container.given => resp.url.container = "upload"

C18_Witness ==
    /\ Sas200
    /\ resp.query.permission = Given(<<"d">>)
    /\ ~resp.query.container.given
    /\ resp.url.sp = {"d"}

\* C19: in a URL returned with status 200 by /api/sas the start time is the
\* time at which the request is handled, and the expiry is exactly n minutes
\* after it, n being the integer given as timerange and 10 when timerange is
\* omitted.
C19_SpanIsTimerangeMinutes ==
    Sas200 =>
       LET span == resp.url.se - resp.url.st
           t == resp.query.timerange
       IN  /\ resp.url.st = resp.now \div 1000
           /\ ~t.given => span = 10 * 60
           /\ t = Given(<<"0">>) => span = 0
           /\ t = Given(<<"-", "5">>) => span = 0 - 5 * 60
           /\ t = Given(<<"1">>) => span = 1 * 60
           /\ t = Given(<<"3", "0">>) => span = 30 * 60
           /\ t = Given(<<"6", "0">>) => span = 60 * 60
           /\ t = Given(<<"6", "1">>) => span = 61 * 60
           /\ t = Given(<<"1", "2", "0">>) => span = 120 * 60

C19_Witness ==
    /\ Sas200
    /\ resp.query.timerange = Given(<<"3", "0">>)
    /\ resp.now = 1999
    /\ resp.url.st = 1
    /\ resp.url.se = 1801

\* C20: a signed URL issued for a container and a blob names that container
\* and that blob in its path and in its signed resource, for /api/sas and
\* for every signed entry of /api/list: the token covers the blob it was
\* issued for and no other.
C20_TokenScopedToBlob ==
    /\ Sas200 =>
          /\ resp.url.container = Default(resp.query.container, "upload")
          /\ resp.url.blob = resp.query.file.v
          /\ resp.url.sc = resp.url.container
          /\ resp.url.sb = resp.url.blob
    /\ List200 =>
          \A i \in 1..Len(resp.list) :
             resp.list[i].kind = "sas" =>
                /\ resp.list[i].container = ListedContainer
                /\ resp.list[i].blob \in store[ListedContainer]
                /\ resp.list[i].sc = resp.list[i].container
                /\ resp.list[i].sb = resp.list[i].blob
                /\ \A j \in 1..Len(resp.list) :
                      resp.list[j].sb = resp.list[i].sb => j = i

C20_Witness ==
    /\ List200
    /\ Len(resp.list) = 2
    /\ resp.list[1].kind = "sas"
    /\ resp.list[1].sb = 1
    /\ resp.list[2].sb = 2
    /\ ListedContainer = "other"

-----------------------------------------------------------------------------
(* start() (server.ts)                                                     *)

\* verifyStoragePermissions has not been called.
NotCalled == [VerifyIdle EXCEPT !.pc = "uncalled"]

InitStart ==
    /\ accountName \in {"", "account"}
    /\ _credential = NoCredential
    /\ resp = NoResp
    /\ verify = NotCalled
    /\ \E variant \in StartVariants, nodeEnv \in NodeEnvs :
          server = Booting(variant, nodeEnv)
    /\ identity = NoIdentity("")
    /\ InitClient
    /\ store = [c \in Containers |-> {}]

\* start() of the first API package: nothing precedes fastify.listen.
StartListenOnly ==
    /\ server.pc = "boot"
    /\ server.variant = "listen"
    /\ server' = [server EXCEPT !.pc = "ready"]
    /\ UNCHANGED <<accountName, _credential, identity, store, resp, verify, clientVars>>

\* start() with the permission check: `if (accountName) { verification =
\* await verifyStoragePermissions(accountName) ... } else { console.warn }`.
Start ==
    /\ server.pc = "boot"
    /\ server.variant = "verify-then-listen"
    /\ IF accountName # ""
       THEN /\ server' = [server EXCEPT !.pc = "verifying", !.verifications = @ + 1]
            /\ verify' = VerifyIdle
       ELSE /\ server' = [server EXCEPT
                  !.pc = "ready",
                  !.warnings = @ \cup
                     {"AZURE_STORAGE_ACCOUNT_NAME not set, skipping permission verification"}]
            /\ UNCHANGED verify
    /\ UNCHANGED <<accountName, _credential, identity, store, resp, clientVars>>

ExitOnFailedVerification_always(nodeEnv) == TRUE

\* `if (process.env.NODE_ENV === 'production') process.exit(1)`
ExitOnFailedVerification(nodeEnv) == nodeEnv = "production"

\* The await of verifyStoragePermissions resumes: `if (!verification.success)`.
VerificationReturned ==
    /\ server.pc = "verifying"
    /\ verify.pc = "done"
    /\ server' =
          IF verify.result.success
          THEN [server EXCEPT !.pc = "ready"]
          ELSE IF ExitOnFailedVerification(server.NODE_ENV)
          THEN [server EXCEPT !.pc = "exited", !.exit = "verification"]
          ELSE [server EXCEPT
                  !.pc = "ready",
                  !.warnings = @ \cup
                     {"Continuing in development mode despite permission issues..."}]
    /\ UNCHANGED <<accountName, _credential, identity, store, resp, verify, clientVars>>

\* fastify.listen resolves, or rejects (the port is taken) into the catch
\* block: `process.exit(1)`.
ListenOutcomes == {"listening", "EADDRINUSE"}

Listen ==
    /\ server.pc = "ready"
    /\ \E outcome \in ListenOutcomes :
          server' = IF outcome = "listening"
                    THEN [server EXCEPT !.pc = "listening"]
                    ELSE [server EXCEPT !.pc = "exited", !.exit = "listen"]
    /\ UNCHANGED <<accountName, _credential, identity, store, resp, verify, clientVars>>

NextStart ==
    \/ StartListenOnly
    \/ Start
    \/ VerifyStart
    \/ AccessProbe
    \/ RetryWait
    \/ DelegationProbe
    \/ ContainerProbe
    \/ VerificationReturned
    \/ Listen

SpecStart == InitStart /\ [][NextStart]_vars

-----------------------------------------------------------------------------
(* Properties of the startup                                               *)

\* C12: with no storage account configured the process exits during startup
\* and never reaches the listening state.
C12_NoAccountNeverListens ==
    accountName = "" => server.pc # "listening"

VerificationFailed == verify.pc = "done" /\ ~verify.result.success

\* C13: with the storage account configured, the permission verification
\* runs exactly once per process and has returned before the server listens;
\* outside production a failed verification does not end the process.
C13_VerifiedOnceBeforeListening ==
    /\ accountName # "" => server.verifications <= 1
    /\ (accountName # "" /\ server.pc = "listening")
          => (server.verifications = 1 /\ verify.pc = "done")
    /\ (server.NODE_ENV # "production" /\ VerificationFailed)
          => server.pc \in {"verifying", "ready", "listening"} \/ server.exit = "listen"

\* C14 as stated: in no environment mode does a failed permission
\* verification stop the server; startup goes on to fastify.listen.
C14_FailedVerificationNeverStops ==
    VerificationFailed => server.exit # "verification"

\* C14 as amended: a failed permission verification ends the process exactly
\* when NODE_ENV is production; in every other mode a warning is logged and
\* startup goes on to fastify.listen.
C14_FailedVerificationStopsOnlyProduction ==
    /\ server.exit = "verification"
          => (server.NODE_ENV = "production" /\ VerificationFailed)
    /\ (VerificationFailed /\ server.pc # "verifying")
          => IF server.NODE_ENV = "production"
             THEN server.pc = "exited" /\ server.exit = "verification"
             ELSE /\ "Continuing in development mode despite permission issues..."
                        \in server.warnings
                  /\ server.pc \in {"ready", "listening"} \/ server.exit = "listen"

C14_Witness ==
    /\ VerificationFailed
    /\ server.NODE_ENV = "development"
    /\ server.pc = "listening"

-----------------------------------------------------------------------------
(* Request handlers sharing the credential module                          *)

InitCredential ==
    /\ accountName = "account"
    /\ _credential = NoCredential
    /\ resp = NoResp
    /\ verify = VerifyIdle
    /\ server = Running
    /\ \E clientId \in ClientIds : identity = NoIdentity(clientId)
    /\ InitClient
    /\ store = [c \in Containers |-> {}]

\* A handler runs from its entry to its first await: it calls
\* getBlobServiceClient(accountName), which calls getCredential, and then
\* waits for a call to the store. No other handler runs in between.
HandlerCallsGetBlobServiceClient ==
    /\ \E h \in Handlers :
          /\ identity.handlers[h].pc = "idle"
          /\ _credential' = getCredential(_credential, identity.constructed)
          /\ identity' = [AfterGetBlobServiceClient(identity, _credential) EXCEPT
                            !.handlers[h] = [pc |-> "awaiting",
                                             credential |-> _credential',
                                             attempts |-> <<>>]]
    /\ UNCHANGED <<accountName, store, resp, verify, server, clientVars>>

\* The store call of a handler asks the handler's credential for a token.
HandlerGetsToken ==
    /\ \E h \in Handlers, outcomes \in [1..Len(identity.chain) -> StrategyOutcomes] :
          /\ identity.handlers[h].pc = "awaiting"
          /\ identity' = [identity EXCEPT
                            !.handlers[h].pc = "done",
                            !.handlers[h].attempts = getToken(identity.chain, outcomes, 1)]
    /\ UNCHANGED <<accountName, _credential, store, resp, verify, server, clientVars>>

\* reply.send: the handler returns; a later request may use it again.
HandlerReturns ==
    /\ \E h \in Handlers :
          /\ identity.handlers[h].pc = "done"
          /\ identity' = [identity EXCEPT !.handlers[h] = IdleHandler]
    /\ UNCHANGED <<accountName, _credential, store, resp, verify, server, clientVars>>

NextCredential ==
    \/ HandlerCallsGetBlobServiceClient
    \/ HandlerGetsToken
    \/ HandlerReturns

SpecCredential == InitCredential /\ [][NextCredential]_vars

-----------------------------------------------------------------------------
(* Properties of the credential module                                     *)

\* C15: getCredential is idempotent and memoized: the first call constructs
\* the credential, every later call returns that instance and constructs
\* nothing, so every BlobServiceClient is built with the same credential.
C15_CredentialMemoized ==
    /\ identity.constructed <= 1
    /\ (identity.constructed = 0) <=> (_credential = NoCredential)
    /\ (identity.constructed = 0) <=> (identity.clients = {})
    /\ identity.clients \subseteq {1}
    /\ \A h \in Handlers :
          identity.handlers[h].pc # "idle" => identity.handlers[h].credential = 1

C15_Witness ==
    /\ identity.handlers[1].pc = "done"
    /\ identity.handlers[2].pc = "awaiting"
    /\ identity.handlers[2].credential = identity.handlers[1].credential
    /\ identity.constructed = 1

\* C16 as stated: a token is resolved by trying (1) the identity named by the
\* configured selector, when one is configured, (2) the ambient
\* platform-assigned identity, (3) the local developer session, in that
\* order; a strategy is tried only after all earlier ones failed and the
\* first success ends the resolution.
C16_ThreeStrategiesInOrder ==
    \A h \in Handlers :
       LET a == identity.handlers[h].attempts
           order == IF identity.clientId # "" THEN <<1, 2, 3>> ELSE <<2, 3>>
           rank(x) == IF x.kind = "ManagedIdentityCredential"
                      THEN (IF x.clientId # "" THEN 1 ELSE 2)
                      ELSE 3
       IN  /\ Len(a) <= Len(order)
           /\ \A i \in 1..Len(a) :
                 /\ rank(a[i]) = order[i]
                 /\ i < Len(a) => a[i].outcome # "token"

\* C16 as amended: a token is resolved by trying two strategies in order:
\* the managed identity (the one named by AZURE_CLIENT_ID when that is set,
\* the ambient one otherwise), then the Azure CLI session. The CLI session is
\* tried exactly when the managed identity is unavailable; a token from the
\* managed identity ends the resolution.
C16_ManagedIdentityThenCli ==
    \A h \in Handlers :
       LET a == identity.handlers[h].attempts
       IN  /\ Len(a) <= 2
           /\ identity.handlers[h].pc = "done" => Len(a) >= 1
           /\ Len(a) >= 1 =>
                 /\ a[1].kind = "ManagedIdentityCredential"
                 /\ a[1].clientId = identity.clientId
                 /\ (a[1].outcome = "unavailable") <=> (Len(a) = 2)
           /\ Len(a) = 2 => a[2].kind = "AzureCliCredential"

C16_Witness ==
    /\ identity.clientId = "client-id"
    /\ identity.handlers[1].pc = "done"
    /\ Len(identity.handlers[1].attempts) = 2
    /\ identity.handlers[1].attempts[1].outcome = "unavailable"
    /\ identity.handlers[1].attempts[2].outcome = "token"

\* C17: under every interleaving of handlers that call getCredential while
\* no credential is memoized yet, every caller receives a credential and the
\* memoized instance, once set, is never replaced by another.
C17_MemoNeverReplaced ==
    [][/\ _credential # NoCredential => _credential' = _credential
       /\ \A h \in Handlers :
             identity'.handlers[h].pc # "idle"
                => /\ identity'.handlers[h].credential # NoCredential
                   /\ identity'.handlers[h].credential = _credential']_vars

C17_Witness ==
    /\ \A h \in Handlers : identity.handlers[h].pc = "awaiting"
    /\ \A h \in Handlers : identity.handlers[h].credential = _credential
    /\ _credential # NoCredential

-----------------------------------------------------------------------------
(* Properties of verifyStoragePermissions                                  *)

\* C21: the account-access probe is retried under a bounded policy: at most
\* 3 attempts, none after a success, a 2-second wait between two consecutive
\* attempts and never after the last, the access failure reported exactly
\* when 3 attempts failed, and a success on any attempt followed by the
\* delegation-key probe.
C21_BoundedAccessRetry ==
    LET log == verify.log
        attempts == {i \in 1..Len(log) : log[i][1] = "getProperties"}
        failures == {i \in attempts : log[i][2] # "ok"}
        waits == {i \in 1..Len(log) : log[i][1] = "wait"}
    IN  /\ Cardinality(attempts) <= 3
        /\ \A i \in attempts : log[i][2] = "ok" => \A j \in attempts : j <= i
        /\ \A i \in waits :
              /\ log[i][2] = "2000"
              /\ i - 1 \in failures
              /\ i < Len(log) => i + 1 \in attempts
              /\ i = Len(log) => verify.pc = "access"
        /\ \A i \in failures :
              (i < Len(log) /\ Cardinality({j \in failures : j <= i}) < 3)
                 => i + 1 \in waits
        /\ \A i \in failures :
              Cardinality({j \in failures : j <= i}) = 3
                 => (i = Len(log) /\ verify.pc = "done")
        /\ (/\ verify.pc = "done"
            /\ verify.result.message =
                  "Cannot access storage account. RBAC roles may need time to propagate (5-10 minutes).")
              <=> Cardinality(failures) = 3
        /\ \A i \in attempts :
              log[i][2] = "ok" =>
                 /\ verify.pc \in {"key", "list", "done"}
                 /\ i < Len(log) => log[i + 1][1] = "getUserDelegationKey"

C21_Witness ==
    /\ verify.pc = "done"
    /\ Len(verify.log) = 5
    /\ verify.log[2] = <<"wait", "2000">>
    /\ verify.log[4] = <<"wait", "2000">>
    /\ verify.log[5] = <<"getProperties", "UpstreamFailure">>
    /\ ~verify.result.success

-----------------------------------------------------------------------------
(* Properties of handleFileUpload                                          *)

\* C22: the client requests the listing only after the store has confirmed
\* the upload of the same attempt, and sets the success status in the step
\* that sends the request; an attempt that fails before that point requests
\* no listing and does not set the success status.
C22_RefreshOnlyAfterUpload ==
    [][/\ \A n \in uploads' :
             n.pc = "list" =>
                /\ n.token.kind = "url"
                /\ n.token.url.sb \in store'[n.token.url.sc]
       /\ \A n \in uploads' \ uploads :
             n.pc = "list" =>
                /\ [n EXCEPT !.pc = "put"] \in uploads
                /\ uploadStatus'.text = "Successfully finished upload"
       /\ (uploadStatus' # uploadStatus
             /\ uploadStatus'.text = "Successfully finished upload")
             => \E ch \in uploads :
                   ch.pc = "put" /\ [ch EXCEPT !.pc = "list"] \in uploads'
       /\ \A ch \in uploads \ uploads' :
             (ch.pc \in {"convert", "put"} /\ uploadStatus' # uploadStatus
                /\ uploadStatus'.text = "Failed to finish upload with error")
                => /\ uploads' = uploads \ {ch}
                   /\ list' = list]_vars

C22_Witness ==
    /\ \E ch \in uploads :
          /\ ch.pc = "list"
          /\ ch.token.url.sb \in store[ch.token.url.sc]
    /\ uploadStatus.text = "Successfully finished upload"
    /\ list = <<>>

\* C23: a failed upload leaves the token and the file selection as they
\* were: no step of handleFileUpload writes sasTokenUrl or selectedFile, and
\* the error branch of an attempt whose upload failed changes uploadStatus
\* only, so the token is still there for a retry.
C23_FailedUploadFrame ==
    [][/\ uploads' # uploads
             => (sasTokenUrl' = sasTokenUrl /\ selectedFile' = selectedFile)
       /\ \A ch \in uploads \ uploads' :
             (/\ ch.pc \in {"convert", "put"}
              /\ uploads' = uploads \ {ch}
              /\ [ch EXCEPT !.pc = IF ch.pc = "convert" THEN "put" ELSE "list"]
                    \notin uploads')
                => /\ uploadStatus'.text = "Failed to finish upload with error"
                   /\ list' = list
                   /\ store' = store
                   /\ sasFetches' = sasFetches
                   /\ sasTokenUrl = ch.token => UploadGuard(sasTokenUrl')]_vars

C23_Witness ==
    /\ uploads = {}
    /\ uploadStatus = FailedStatus("Upload failed")
    /\ sasTokenUrl.kind = "url"
    /\ sasTokenUrl.url.blob = selectedFile.name

\* C24: the client enforces a maximum file size of 256 KB: the content of a
\* selected file larger than 256 KB (262144 bytes) is never sent to the
\* store.
C24_SizeLimitEnforced ==
    \A ch \in uploads : ch.pc \in {"put", "list"} => ch.file.size <= 262144

-----------------------------------------------------------------------------
(* Properties of the delegation-key request                                *)

\* C25: the issuer does not retry: while one /api/sas or /api/list request
\* is handled the delegation key is requested at most once, and a request
\* whose key request failed ends with status 500, nothing signed and nothing
\* enumerated.
C25_NoAutomaticRetry ==
    resp.route \in {"sas", "list"} =>
       /\ resp.fx.keyReqs <= 1
       /\ (resp.fx.keyReqs = 1 /\ resp.keyOutcome # "ok")
             => /\ resp.status = 500
                /\ resp.fx.signs = 0
                /\ resp.fx.pages = 0
                /\ resp.url = NoUrl
                /\ resp.list = <<>>

C25_Witness ==
    /\ resp.route = "sas"
    /\ resp.fx.keyReqs = 1
    /\ resp.keyOutcome = "UpstreamFailure"
    /\ resp.status = 500
    /\ resp.details = "The server encountered an internal error."

-----------------------------------------------------------------------------
(* Properties of the result of verifyStoragePermissions                    *)

\* The probes are called in the order account access, delegation key,
\* container listing, each only after the one before it succeeded.
ProbesInOrder ==
    \A i \in 1..Len(verify.log) :
       /\ verify.log[i][1] = "getUserDelegationKey"
             => (i > 1 /\ verify.log[i - 1] = <<"getProperties", "ok">>)
       /\ verify.log[i][1] = "listContainers"
             => (i > 1 /\ verify.log[i - 1] = <<"getUserDelegationKey", "ok">>)
       /\ verify.log[i][1] \in {"getProperties", "wait"}
             => \A j \in 1..i : verify.log[j][1] \in {"getProperties", "wait"}

AllProbesSucceeded ==
    /\ Len(verify.log) >= 3
    /\ verify.log[Len(verify.log)] = <<"listContainers", "ok">>

\* The message that names the probe of the last call in the log.
FailedProbeNamed ==
    /\ Len(verify.log) >= 1
    /\ LastCall[2] # "ok"
    /\ verify.result.message =
          CASE LastCall[1] = "getProperties" ->
                  "Cannot access storage account. RBAC roles may need time to propagate (5-10 minutes)."
            [] LastCall[1] = "getUserDelegationKey" ->
                  "Missing required role: Storage Blob Delegator"
            [] LastCall[1] = "listContainers" ->
                  "Missing required role: Storage Blob Data Contributor"
            [] OTHER -> "<none>"

\* C26 as stated: verifyStoragePermissions always returns a result with
\* success and message; it runs the probes in order, each only after the
\* earlier ones succeeded; success is true exactly when all three succeeded,
\* and every other result carries the message of the first probe that failed.
C26_TotalAndOrdered ==
    /\ ProbesInOrder
    /\ verify.pc = "done" =>
          /\ verify.result.message # Absent
          /\ verify.result.success <=> AllProbesSucceeded
          /\ ~verify.result.success => FailedProbeNamed

\* C26 as amended: as stated, except that when the blob service client
\* cannot be created (empty account name) no probe runs and the result is
\* the general message 'Permission verification failed'.
C26_TotalOrderedOrNoClient ==
    /\ ProbesInOrder
    /\ verify.pc = "done" =>
          /\ verify.result.message # Absent
          /\ verify.result.success <=> AllProbesSucceeded
          /\ ~verify.result.success =>
                IF accountName = ""
                THEN /\ verify.log = <<>>
                     /\ verify.result.message = "Permission verification failed"
                     /\ verify.result.details # Absent
                ELSE FailedProbeNamed

C26_Witness ==
    /\ verify.pc = "done"
    /\ ~verify.result.success
    /\ Len(verify.log) = 4
    /\ LastCall = <<"getUserDelegationKey", "DelegationDenied">>
    /\ verify.result.message = "Missing required role: Storage Blob Delegator"

-----------------------------------------------------------------------------
(* Properties of the order of key request, signing and enumeration        *)

\* C27: a response of /api/sas or /api/list holds a signed URL only when the
\* same request obtained a delegation key for exactly the URL's window
\* [st, se]; /api/list requests one key before it enumerates any blob, all
\* its entries share that window, and nothing is enumerated when the key
\* request fails.
C27_KeyBeforeSigning ==
    /\ (resp.route = "sas" /\ resp.url.kind = "sas") =>
          /\ resp.fx.keyReqs = 1
          /\ resp.keyOutcome = "ok"
          /\ resp.url.st = resp.fx.keyStart \div 1000
          /\ resp.url.se = resp.fx.keyExpiry \div 1000
    /\ resp.route = "list" =>
          /\ resp.fx.pages > 0 => (resp.fx.keyReqs = 1 /\ resp.keyOutcome = "ok")
          /\ resp.fx.keyReqs <= 1
          /\ \A i \in 1..Len(resp.list) :
                /\ resp.list[i].kind = "sas"
                /\ resp.fx.keyReqs = 1
                /\ resp.list[i].st = resp.fx.keyStart \div 1000
                /\ resp.list[i].se = resp.fx.keyExpiry \div 1000
          /\ resp.keyOutcome # "ok" => (resp.fx.pages = 0 /\ resp.list = <<>>)

-----------------------------------------------------------------------------
(* The /api/status route (status.ts). Header names are sequences of        *)
(* characters, so that toLowerCase and includes are computed.              *)

UpperToLower ==
    [A |-> "a", B |-> "b", C |-> "c", D |-> "d", E |-> "e", F |-> "f",
     G |-> "g", H |-> "h", I |-> "i", J |-> "j", K |-> "k", L |-> "l",
     M |-> "m", N |-> "n", O |-> "o", P |-> "p", Q |-> "q", R |-> "r",
     S |-> "s", T |-> "t", U |-> "u", V |-> "v", W |-> "w", X |-> "x",
     Y |-> "y", Z |-> "z"]

toLowerCase(name) ==
    [i \in 1..Len(name) |->
        IF name[i] \in DOMAIN UpperToLower THEN UpperToLower[name[i]] ELSE name[i]]

includes(name, part) ==
    \E i \in 1..(Len(name) - Len(part) + 1) :
       SubSeq(name, i, i + Len(part) - 1) = part

authorization == <<"a", "u", "t", "h", "o", "r", "i", "z", "a", "t", "i", "o", "n">>

\* Header names a caller may send, as written on the wire.
WireNames ==
    { <<"A", "u", "t", "h", "o", "r", "i", "z", "a", "t", "i", "o", "n">>,
      <<"p", "r", "o", "x", "y", "-", "a", "u", "t", "h", "o", "r", "i", "z", "a", "t", "i", "o", "n">>,
      <<"X", "-", "A", "U", "T", "H", "O", "R", "I", "Z", "A", "T", "I", "O", "N", "-", "I", "D">>,
      <<"A", "c", "c", "e", "p", "t">>,
      <<"A", "u", "t", "h", "o", "r">> }

HeaderValues == {"v1", "v2"}

WireHeaders == UNION {[names -> HeaderValues] : names \in SUBSET WireNames}

StatusUrls == {"/api/status", "/api/status?verbose=1"}

FrontendUrls == {"", "http://localhost:5173"}

\* request.headers: the object Node hands to the handler, keyed by the
\* lower-cased header name.
RequestHeaders(wire) ==
    [key \in {toLowerCase(name) : name \in DOMAIN wire} |->
        wire[CHOOSE name \in DOMAIN wire : toLowerCase(name) = key]]

StatusRequest(url, wire) ==
    [method |-> "GET", url |-> url, headers |-> RequestHeaders(wire)]

KeepHeader_exactName(key) == toLowerCase(key) # authorization

\* The filter callback: ([key]) => !key.toLowerCase().includes('authorization')
KeepHeader(key) == ~includes(toLowerCase(key), authorization)

\* Object.fromEntries(Object.entries(headers).filter(...))
FilterHeaders(headers) ==
    [key \in {k \in DOMAIN headers : KeepHeader(k)} |-> headers[key]]

\* new Date().toISOString(): date and time to the second, then milliseconds.
toISOString(ms) == [seconds |-> ms \div 1000, millis |-> ms % 1000]

OrElse(value, fallback) == IF value = "" THEN fallback ELSE value

getStatus(request, nodeEnv, account, frontendUrl, now) ==
    [status |-> "ok",
     timestamp |-> toISOString(now),
     environment |-> OrElse(nodeEnv, "development"),
     storageAccount |-> OrElse(account, "not configured"),
     frontendUrl |-> OrElse(frontendUrl, "not configured"),
     request |-> [method |-> request.method, url |-> request.url,
                  headers |-> FilterHeaders(request.headers)]]

InitStatus ==
    /\ accountName \in {"", "account"}
    /\ _credential = NoCredential
    /\ resp = NoResp
    /\ verify = VerifyIdle
    /\ \E nodeEnv \in NodeEnvs : server = [Running EXCEPT !.NODE_ENV = nodeEnv]
    /\ identity = NoIdentity("")
    /\ InitClient
    /\ store = [c \in Containers |-> {}]

\* GET /api/status: reply.send(status) answers 200 with the object as body.
GetStatus ==
    /\ resp.route = "none"
    /\ \E url \in StatusUrls, wire \in WireHeaders, frontendUrl \in FrontendUrls,
          now \in NowValues :
          resp' = [route |-> "status", rawHeaders |-> wire,
                   request |-> StatusRequest(url, wire),
                   FRONTEND_URL |-> frontendUrl, status |-> 200,
                   body |-> getStatus(StatusRequest(url, wire), server.NODE_ENV,
                                      accountName, frontendUrl, now)]
    /\ UNCHANGED <<accountName, _credential, identity, store, clientVars,
                   verify, server>>

NextStatus ==
    \/ GetStatus
    \/ Complete

SpecStatus == InitStatus /\ [][NextStatus]_vars

-----------------------------------------------------------------------------
(* Properties of the /api/status route                                     *)

\* The lower-cased names of WireNames that contain 'authorization'.
AuthorizationNames ==
    { <<"a", "u", "t", "h", "o", "r", "i", "z", "a", "t", "i", "o", "n">>,
      <<"p", "r", "o", "x", "y", "-", "a", "u", "t", "h", "o", "r", "i", "z", "a", "t", "i", "o", "n">>,
      <<"x", "-", "a", "u", "t", "h", "o", "r", "i", "z", "a", "t", "i", "o", "n", "-", "i", "d">> }

OtherHeaders(headers) ==
    [key \in DOMAIN headers \ AuthorizationNames |-> headers[key]]

\* C28: the response of /api/status holds no request header whose name
\* contains 'authorization' in any letter case and holds every other request
\* header with its value; two requests that differ only in such headers get
\* responses that are equal apart from the timestamp.
C28_AuthorizationHeadersRedacted ==
    resp.route = "status" =>
       /\ resp.status = 200
       /\ DOMAIN resp.body.request.headers \cap AuthorizationNames = {}
       /\ resp.body.request.headers = OtherHeaders(resp.request.headers)
       /\ \A wire \in WireHeaders, now \in NowValues :
             OtherHeaders(RequestHeaders(wire)) = OtherHeaders(resp.request.headers)
             => [getStatus(StatusRequest(resp.request.url, wire), server.NODE_ENV,
                           accountName, resp.FRONTEND_URL, now)
                     EXCEPT !.timestamp = 0]
                = [resp.body EXCEPT !.timestamp = 0]

C28_Witness ==
    /\ resp.route = "status"
    /\ DOMAIN resp.rawHeaders = WireNames
    /\ DOMAIN resp.body.request.headers = { <<"a", "c", "c", "e", "p", "t">>, <<"a", "u", "t", "h", "o", "r">> }
    /\ resp.body.request.headers[<<"a", "c", "c", "e", "p", "t">>] = "v2"

-----------------------------------------------------------------------------
(* Properties of the listing refresh                                       *)

\* C29: the client's list changes only when a listing request of an upload
\* attempt is answered successfully, and then to signed URLs of stored blobs;
\* when the listing request of an attempt fails, the list keeps its value and
\* the status becomes 'Failed to finish upload with error', although the
\* blob of that attempt is in the store.
C29_ListOnlyFromSuccessfulListing ==
    [][/\ list' # list =>
             /\ \E ch \in uploads : ch.pc = "list" /\ uploads' = uploads \ {ch}
             /\ uploadStatus' = uploadStatus
             /\ \A i \in 1..Len(list') :
                   /\ list'[i].kind = "sas"
                   /\ list'[i].sb \in store'[list'[i].sc]
       /\ \A ch \in uploads :
             (ch.pc = "list" /\ ch \notin uploads') =>
                \/ /\ uploadStatus' = uploadStatus
                   /\ \A b \in store'["upload"] :
                         \E i \in 1..Len(list') : list'[i].sb = b
                \/ /\ uploadStatus'.text = "Failed to finish upload with error"
                   /\ list' = list
                   /\ ch.token.url.sb \in store'[ch.token.url.sc]
      ]_vars

C29_Witness ==
    /\ uploads = {}
    /\ uploadStatus.text = "Failed to finish upload with error"
    /\ uploadStatus.message \in {"Failed to fetch", "Error: 500"}
    /\ list # <<>>
    /\ \E b \in store["upload"] : \A i \in 1..Len(list) : list[i].sb # b

-----------------------------------------------------------------------------
(* Properties of the payload check of handleFileUpload                     *)

\* An attempt that ends at the conversion step: it leaves the set of running
\* attempts without a successor at the store call.
EndsAtConversion(ch) ==
    /\ ch.pc = "convert"
    /\ ch \notin uploads'
    /\ [ch EXCEPT !.pc = "put"] \notin uploads'

\* C30 as stated: no payload of zero bytes is sent to the store; an attempt
\* whose file has zero bytes or cannot be read makes no store call, sets the
\* failed status with 'Failed to convert file to ArrayBuffer' and requests
\* no listing refresh.
C30_EmptyPayloadNeverSent ==
    [][/\ \A ch \in uploads' : ch.pc \in {"put", "list"} => ch.file.size >= 1
       /\ \A ch \in uploads :
             (ch.pc = "convert" /\ ch \notin uploads' /\ ch.file.size < 1)
                => EndsAtConversion(ch)
       /\ \A ch \in uploads :
             (EndsAtConversion(ch) /\ (ch.file.size < 1 \/ ch.token.kind # "error")) =>
                /\ uploadStatus'.text = "Failed to finish upload with error"
                /\ uploadStatus'.message = "Failed to convert file to ArrayBuffer"
                /\ store' = store
                /\ list' = list
                /\ uploads' = uploads \ {ch}
      ]_vars

\* C30 as amended: as stated, except that a file that cannot be read ends
\* with the reader's own message 'Error reading file.'; only a file read as
\* zero bytes ends with 'Failed to convert file to ArrayBuffer'.
C30_EmptyOrUnreadableNeverSent ==
    [][/\ \A ch \in uploads' : ch.pc \in {"put", "list"} => ch.file.size >= 1
       /\ \A ch \in uploads :
             (ch.pc = "convert" /\ ch \notin uploads' /\ ch.file.size < 1)
                => EndsAtConversion(ch)
       /\ \A ch \in uploads :
             (EndsAtConversion(ch) /\ (ch.file.size < 1 \/ ch.token.kind # "error")) =>
                /\ uploadStatus'.text = "Failed to finish upload with error"
                /\ uploadStatus'.message \in
                      {"Failed to convert file to ArrayBuffer", "Error reading file."}
                /\ uploadStatus'.message = "Failed to convert file to ArrayBuffer"
                      => ch.file.size < 1
                /\ store' = store
                /\ list' = list
                /\ uploads' = uploads \ {ch}
      ]_vars

C30_Witness ==
    /\ uploads = {}
    /\ uploadStatus.text = "Failed to finish upload with error"
    /\ uploadStatus.message = "Failed to convert file to ArrayBuffer"
    /\ selectedFile.size = 0
    /\ sasTokenUrl.kind = "url"
    /\ \A c \in Containers : store[c] = {}
    /\ list = <<>>

====
